---- MODULE Spec2Model ----
(***************************************************************************)
(* Topology JSON Builder (src/app.py): the in-memory AppState store, the   *)
(* REST handlers that mutate it, and the recursive build_json export.      *)
(*                                                                         *)
(* Encoding of Python values:                                              *)
(*   - a dict whose order is observable (node props, exported objects) is  *)
(*     a sequence of entries [k |-> key, v |-> value], kept in insertion   *)
(*     order with Python's overwrite-in-place rule (DictSet);              *)
(*   - a JSON value is [s |-> string], [l |-> list] or [o |-> entries];    *)
(*   - an optional argument (label / props / config section) is <<>> for   *)
(*     an absent value and <<x>> for a present one;                        *)
(*   - ids are 1..NumIds: str(uuid.uuid4())[:8] is a random draw from a    *)
(*     finite space, so the draw is a nondeterministic choice over it.     *)
(***************************************************************************)
EXTENDS Integers, Sequences, FiniteSets, TLC

VARIABLES node_types, rules, nodes, edges, selected_id, version,
          invoked, skipped, issued, last, ret, threads

vars == <<node_types, rules, nodes, edges, selected_id, version,
          invoked, skipped, issued, last, ret, threads>>

store == <<node_types, rules, nodes, edges, selected_id, version>>

(* ------------------------------ bounds -------------------------------- *)

NumIds == 3

MaxNodes == 3

MaxEdges == 2

MaxVersion == 6

MaxWideVersion == 3

MaxSkipped == 1

\* the longest run of bumping calls when every handler runs with draws that
\* never repeat
MaxFreshVersion == 5

\* worker threads that run route handlers at the same time
NumThreads == 2

\* calls that the worker threads begin in one run
MaxThreadCalls == 5

Ids == 1..NumIds

Threads == 1..NumThreads

None == 0

Null == [null |-> TRUE]

(* --------------------------- JSON encoding ---------------------------- *)

Str(s) == [s |-> s]

List(l) == [l |-> l]

Obj(o) == [o |-> o]

Entry(k, v) == [k |-> k, v |-> v]

Keys(d) == [i \in 1..Len(d) |-> d[i].k]

HasKey(d, k) == \E i \in 1..Len(d) : d[i].k = k

\* an assignment that leaves an existing key alone
DictSet_first(d, k, v) == IF HasKey(d, k) THEN d ELSE Append(d, Entry(k, v))

\* d[k] = v on a Python dict: an existing key keeps its position
DictSet(d, k, v) ==
    IF HasKey(d, k)
    THEN [i \in 1..Len(d) |-> IF d[i].k = k THEN Entry(k, v) ELSE d[i]]
    ELSE Append(d, Entry(k, v))

DictGet(d, k) == d[CHOOSE i \in 1..Len(d) : d[i].k = k].v

RECURSIVE Update(_, _)
\* d.update(e)
Update(d, e) ==
    IF e = <<>> THEN d
    ELSE Update(DictSet(d, Head(e).k, Head(e).v), Tail(e))

(* --------------------------- DEFAULT_CONFIG --------------------------- *)

PropDef(k, t, d) == [k |-> k, type |-> t, default |-> d]

DEFAULT_NODE_TYPES ==
    [network |-> [label |-> "Network",
                  props |-> << PropDef("cidr", "text", <<Str("10.0.0.0/24")>>),
                               PropDef("vlan", "number", <<Str("")>>),
                               PropDef("gateway", "text", <<Str("")>>),
                               PropDef("zone", "select", <<Str("private")>>) >>],
     vm      |-> [label |-> "VM",
                  props |-> << PropDef("cpu", "select", <<Str("2 vCPU")>>),
                               PropDef("ram", "select", <<Str("4 GB")>>),
                               PropDef("os", "select", <<Str("Ubuntu 22.04")>>),
                               PropDef("ip", "text", <<Str("")>>),
                               PropDef("roles", "multiselect", <<List(<<>>)>>) >>],
     storage |-> [label |-> "Storage",
                  props |-> << PropDef("size", "select", <<Str("100 GB")>>),
                               PropDef("type", "select", <<Str("SSD")>>),
                               PropDef("replication", "select", <<Str("none")>>) >>]]

DEFAULT_RULES == [network |-> <<"vm">>, vm |-> <<"storage">>]

(* ------------------------------ inputs -------------------------------- *)

\* type keys a caller passes to add_node ("rack" is not in the default registry)
TypeKeyInputs == {"network", "vm", "rack"}

\* type keys a caller edits through the settings endpoints
TypeEditInputs == {"vm", "rack"}

\* the body of PUT /api/settings/type/{key}
RACK_TYPE ==
    [label |-> "Rack",
     props |-> << PropDef("units", "multiselect", <<>>),
                  PropDef("note", "text", <<>>) >>]

\* a rule table that lets a kind nest inside itself
SELF_RULES == [network |-> <<"vm">>, vm |-> <<"vm", "storage">>]

RulesInputs == {SELF_RULES}

ImportInputs ==
    { [nodeTypes |-> <<>>, rules |-> <<>>],
      [nodeTypes |-> <<[network |-> DEFAULT_NODE_TYPES.network, rack |-> RACK_TYPE]>>,
       rules |-> <<[rack |-> <<"network">>]>>] }

\* (label, props) bodies of PATCH /api/node/{nid}; <<>> is an absent field
UpdateInputs ==
    { <<<<"Network 1">>, <<>>>>,
      <<<<>>, << <<Entry("type", Str("NVMe")), Entry("note", Str("x"))>> >>>> }

PosInputs == {<<0, 0>>}

\* a PATCH body that gives a node the label of the first vm and a property
\* its kind does not declare
RelabelInputs ==
    { <<<<"VM 1">>, << <<Entry("note", Str("second"))>> >>>> }

(* --------------------------- AppState helpers ------------------------- *)

\* next((n for n in self.nodes if n["id"] == node_id), None)
get_node(ns, node_id) ==
    IF \E i \in 1..Len(ns) : ns[i].id = node_id
    THEN ns[CHOOSE i \in 1..Len(ns) :
                /\ ns[i].id = node_id
                /\ \A j \in 1..(i - 1) : ns[j].id # node_id]
    ELSE Null

\* index of the first node with this id (0 when there is none)
first_index(ns, node_id) ==
    IF \E i \in 1..Len(ns) : ns[i].id = node_id
    THEN CHOOSE i \in 1..Len(ns) :
                /\ ns[i].id = node_id
                /\ \A j \in 1..(i - 1) : ns[j].id # node_id
    ELSE 0

\* self.rules.get(key, [])
rules_get(rs, key) == IF key \in DOMAIN rs THEN rs[key] ELSE <<>>

InList(x, l) == \E i \in 1..Len(l) : l[i] = x

\* self.node_types.get(key, {}).get("label", key)
type_label(nts, key) == IF key \in DOMAIN nts THEN nts[key].label ELSE key

\* pd.get("default", [] if pd["type"] == "multiselect" else "")
prop_default(pd) ==
    IF pd.default # <<>> THEN pd.default[1]
    ELSE IF pd.type = "multiselect" THEN List(<<>>) ELSE Str("")

\* {k: default for k, pd in td["props"].items()}
initial_props(td) ==
    [i \in 1..Len(td.props) |-> Entry(td.props[i].k, prop_default(td.props[i]))]

count_type(ns, type_key) == Cardinality({i \in 1..Len(ns) : ns[i].type = type_key})

new_label(td, idx) == td.label \o " " \o ToString(idx)

new_node(ns, td, type_key, id) ==
    [id    |-> id,
     type  |-> type_key,
     label |-> new_label(td, count_type(ns, type_key) + 1),
     x     |-> 180 + (Len(ns) % 5) * 70,
     y     |-> 100 + (Len(ns) \div 5) * 60,
     props |-> initial_props(td)]

new_edge(id, from_id, to_id) == [id |-> id, from |-> from_id, to |-> to_id]

\* a bump that is lost
bump_lost(v) == v

\* a bump applied twice in one call
bump_twice(v) == v + 2

\* AppState._bump
bump(v) == v + 1

Call(op, args) == [op |-> op, args |-> args]

Returned(value) == [raised |-> FALSE, value |-> value]

Raised(err) == [raised |-> TRUE, value |-> err]

\* a worker thread between two calls; pc is the statement a running handler
\* executes next, a and b its arguments, tmp the value it read
Idle == [pc |-> "idle", op |-> "none", a |-> 0, b |-> 0, tmp |-> 0]

(* ------------------------------- state -------------------------------- *)

Init ==
    /\ node_types = DEFAULT_NODE_TYPES
    /\ rules = DEFAULT_RULES
    /\ nodes = <<>>
    /\ edges = <<>>
    /\ selected_id = None
    /\ version = 0
    /\ invoked = 0
    /\ skipped = 0
    /\ issued = [node |-> {}, edge |-> {}]
    /\ last = Call("init", <<>>)
    /\ ret = Returned(Null)
    /\ threads = [t \in Threads |-> Idle]

(* --------------------------- node operations -------------------------- *)

\* the history of the run: calls invoked, calls that failed or were silent
\* no-ops, and the ids handed out so far
Count(failed) ==
    /\ IF failed THEN skipped < MaxSkipped ELSE version < MaxVersion
    /\ invoked' = invoked + 1
    /\ skipped' = IF failed THEN skipped + 1 ELSE skipped

\* AppState.add_node, called by POST /api/node; id is the uuid drawn
AddNode(type_key, id) ==
    /\ last' = Call("add_node", <<type_key>>)
    /\ UNCHANGED threads
    /\ Count(type_key \notin DOMAIN node_types)
    /\ IF type_key \notin DOMAIN node_types
       THEN /\ ret' = Raised("Unknown node type")
            /\ UNCHANGED <<store, issued>>
       ELSE /\ Len(nodes) < MaxNodes
            /\ LET node == new_node(nodes, node_types[type_key], type_key, id)
               IN /\ nodes' = Append(nodes, node)
                  /\ ret' = Returned(node)
            /\ version' = bump(version)
            /\ issued' = [issued EXCEPT !.node = @ \cup {id}]
            /\ UNCHANGED <<node_types, rules, edges, selected_id>>

\* update_node replacing the stored properties by the patch
updated_node_replaced(n, label, props) ==
    [n EXCEPT !.label = IF label # <<>> THEN label[1] ELSE @,
              !.props = IF props # <<>> THEN props[1] ELSE @]

\* the node after update_node's two assignments
updated_node(n, label, props) ==
    [n EXCEPT !.label = IF label # <<>> THEN label[1] ELSE @,
              !.props = IF props # <<>> THEN Update(@, props[1]) ELSE @]

\* AppState.update_node, called by PATCH /api/node/{nid}
UpdateNode(node_id, label, props) ==
    /\ last' = Call("update_node", <<node_id, label, props>>)
    /\ UNCHANGED threads
    /\ ret' = Returned(Null)
    /\ Count(first_index(nodes, node_id) = 0)
    /\ LET i == first_index(nodes, node_id)
       IN IF i = 0
          THEN UNCHANGED store
          ELSE /\ nodes' = [nodes EXCEPT ![i] = updated_node(@, label, props)]
               /\ version' = bump(version)
               /\ UNCHANGED <<node_types, rules, edges, selected_id>>
    /\ UNCHANGED issued

\* AppState.move_node, called by PUT /api/node/{nid}/pos
MoveNode(node_id, x, y) ==
    /\ last' = Call("move_node", <<node_id, x, y>>)
    /\ UNCHANGED threads
    /\ ret' = Returned(Null)
    /\ Count(first_index(nodes, node_id) = 0)
    /\ LET i == first_index(nodes, node_id)
       IN IF i = 0
          THEN UNCHANGED store
          ELSE /\ nodes' = [nodes EXCEPT ![i].x = x, ![i].y = y]
               /\ version' = bump(version)
               /\ UNCHANGED <<node_types, rules, edges, selected_id>>
    /\ UNCHANGED issued

\* the filter of delete_node inverted
nodes_only(ns, node_id) == SelectSeq(ns, LAMBDA n : n.id = node_id)

\* [n for n in self.nodes if n["id"] != node_id]
nodes_without(ns, node_id) == SelectSeq(ns, LAMBDA n : n.id # node_id)

\* the cascade that forgets the incoming edges
edges_without_node_from(es, node_id) == SelectSeq(es, LAMBDA e : e.from # node_id)

\* [e for e in self.edges if e["from"] != node_id and e["to"] != node_id]
edges_without_node(es, node_id) ==
    SelectSeq(es, LAMBDA e : e.from # node_id /\ e.to # node_id)

\* if self.selected_id == node_id: self.selected_id = None
selection_after_delete(sel, node_id) == IF sel = node_id THEN None ELSE sel

\* AppState.delete_node, called by DELETE /api/node/{nid}
DeleteNode(node_id) ==
    /\ last' = Call("delete_node", <<node_id>>)
    /\ UNCHANGED threads
    /\ ret' = Returned(Null)
    /\ Count(FALSE)
    /\ nodes' = nodes_without(nodes, node_id)
    /\ edges' = edges_without_node(edges, node_id)
    /\ selected_id' = selection_after_delete(selected_id, node_id)
    /\ version' = bump(version)
    /\ UNCHANGED <<node_types, rules, issued>>

(* --------------------------- edge operations -------------------------- *)

\* the duplicate check with the endpoints swapped
edge_exists_swapped(es, from_id, to_id) ==
    \E i \in 1..Len(es) : es[i].from = to_id /\ es[i].to = from_id

\* any(e["from"] == from_id and e["to"] == to_id for e in self.edges)
edge_exists(es, from_id, to_id) ==
    \E i \in 1..Len(es) : es[i].from = from_id /\ es[i].to = to_id

\* the rule table read in both directions
nesting_allowed_either(rs, fn, tn) ==
    InList(tn.type, rules_get(rs, fn.type)) \/ InList(fn.type, rules_get(rs, tn.type))

\* tn["type"] not in self.rules.get(fn["type"], [])
nesting_allowed(rs, fn, tn) == InList(tn.type, rules_get(rs, fn.type))

\* add_edge without its rule-table check
add_edge_error_unruled(ns, es, rs, nts, from_id, to_id) ==
    IF get_node(ns, from_id) = Null \/ get_node(ns, to_id) = Null
    THEN "Node not found"
    ELSE IF edge_exists(es, from_id, to_id)
    THEN "Connection already exists"
    ELSE ""

\* add_edge with the duplicate check ahead of the rule-table check
add_edge_error_reordered(ns, es, rs, nts, from_id, to_id) ==
    LET fn == get_node(ns, from_id)
        tn == get_node(ns, to_id)
    IN IF fn = Null \/ tn = Null
       THEN "Node not found"
       ELSE IF edge_exists(es, from_id, to_id)
       THEN "Connection already exists"
       ELSE IF ~nesting_allowed(rs, fn, tn)
       THEN type_label(nts, tn.type) \o " cannot be nested inside "
                \o type_label(nts, fn.type)
       ELSE ""

\* the three checks of add_edge, in order: the error string, "" when all pass
add_edge_error(ns, es, rs, nts, from_id, to_id) ==
    LET fn == get_node(ns, from_id)
        tn == get_node(ns, to_id)
    IN IF fn = Null \/ tn = Null
       THEN "Node not found"
       ELSE IF ~nesting_allowed(rs, fn, tn)
       THEN type_label(nts, tn.type) \o " cannot be nested inside "
                \o type_label(nts, fn.type)
       ELSE IF edge_exists(es, from_id, to_id)
       THEN "Connection already exists"
       ELSE ""

\* AppState.add_edge, called by POST /api/edge; id is the uuid drawn
AddEdge(from_id, to_id, id) ==
    LET err == add_edge_error(nodes, edges, rules, node_types, from_id, to_id)
    IN /\ last' = Call("add_edge", <<from_id, to_id>>)
       /\ UNCHANGED threads
       /\ Count(err # "")
       /\ IF err # ""
          THEN /\ ret' = Returned([edge |-> Null, err |-> err])
               /\ UNCHANGED <<store, issued>>
          ELSE /\ Len(edges) < MaxEdges
               /\ LET edge == new_edge(id, from_id, to_id)
                  IN /\ edges' = Append(edges, edge)
                     /\ ret' = Returned([edge |-> edge, err |-> ""])
               /\ version' = bump(version)
               /\ issued' = [issued EXCEPT !.edge = @ \cup {id}]
               /\ UNCHANGED <<node_types, rules, nodes, selected_id>>

\* [e for e in self.edges if e["id"] != edge_id]
edges_without(es, edge_id) == SelectSeq(es, LAMBDA e : e.id # edge_id)

\* AppState.delete_edge, called by DELETE /api/edge/{eid}
DeleteEdge(edge_id) ==
    /\ last' = Call("delete_edge", <<edge_id>>)
    /\ UNCHANGED threads
    /\ ret' = Returned(Null)
    /\ Count(FALSE)
    /\ edges' = edges_without(edges, edge_id)
    /\ version' = bump(version)
    /\ UNCHANGED <<node_types, rules, nodes, selected_id, issued>>

(* ------------------------------ selection ----------------------------- *)

\* PUT /api/node/{nid}/select
Select(nid) ==
    /\ last' = Call("select", <<nid>>)
    /\ UNCHANGED threads
    /\ ret' = Returned(Null)
    /\ Count(FALSE)
    /\ selected_id' = nid
    /\ version' = bump(version)
    /\ UNCHANGED <<node_types, rules, nodes, edges, issued>>

\* DELETE /api/node/deselect
Deselect ==
    /\ last' = Call("deselect", <<>>)
    /\ UNCHANGED threads
    /\ ret' = Returned(Null)
    /\ Count(FALSE)
    /\ selected_id' = None
    /\ version' = bump(version)
    /\ UNCHANGED <<node_types, rules, nodes, edges, issued>>

(* ------------------------------- settings ----------------------------- *)

\* d[key] = value on a dict whose order is not observed
put(d, key, value) ==
    [k \in DOMAIN d \cup {key} |-> IF k = key THEN value ELSE d[k]]

\* d.pop(key, None)
pop(d, key) == [k \in DOMAIN d \ {key} |-> d[k]]

\* [x for x in l if x != key]
list_without(l, key) == SelectSeq(l, LAMBDA x : x # key)

\* only the parent entry of key is dropped
purge_parent_only(rs, key) == [k \in DOMAIN rs \ {key} |-> rs[k]]

\* state.rules.pop(key, None); every other list loses key
purge(rs, key) == [k \in DOMAIN rs \ {key} |-> list_without(rs[k], key)]

\* PUT /api/settings/type/{key}
PutType(key, body) ==
    /\ last' = Call("put_type", <<key>>)
    /\ UNCHANGED threads
    /\ ret' = Returned(Null)
    /\ Count(FALSE)
    /\ node_types' = put(node_types, key, body)
    /\ rules' = IF key \notin DOMAIN rules THEN put(rules, key, <<>>) ELSE rules
    /\ version' = bump(version)
    /\ UNCHANGED <<nodes, edges, selected_id, issued>>

\* DELETE /api/settings/type/{key}
DelType(key) ==
    /\ last' = Call("del_type", <<key>>)
    /\ UNCHANGED threads
    /\ ret' = Returned(Null)
    /\ Count(FALSE)
    /\ node_types' = pop(node_types, key)
    /\ rules' = purge(rules, key)
    /\ version' = bump(version)
    /\ UNCHANGED <<nodes, edges, selected_id, issued>>

\* PUT /api/settings/rules
PutRules(body) ==
    /\ last' = Call("put_rules", <<body>>)
    /\ UNCHANGED threads
    /\ ret' = Returned(Null)
    /\ Count(FALSE)
    /\ rules' = body
    /\ version' = bump(version)
    /\ UNCHANGED <<node_types, nodes, edges, selected_id, issued>>

\* AppState.import_config, called by POST /api/settings
ImportConfig(data) ==
    /\ last' = Call("import_config", <<data>>)
    /\ UNCHANGED threads
    /\ ret' = Returned(Null)
    /\ Count(FALSE)
    /\ node_types' = IF data.nodeTypes # <<>> THEN data.nodeTypes[1] ELSE node_types
    /\ rules' = IF data.rules # <<>> THEN data.rules[1] ELSE rules
    /\ version' = bump(version)
    /\ UNCHANGED <<nodes, edges, selected_id, issued>>

(* ------------------------------ JSON export --------------------------- *)

\* the result of a to_obj call: the object, or the unbounded recursion
Built(obj) == [diverges |-> FALSE, obj |-> obj]

Diverges == [diverges |-> TRUE, obj |-> <<>>]

\* the child ids taken from the wrong endpoint
child_ids_from(es) == {es[i].from : i \in 1..Len(es)}

\* child_ids = {e["to"] for e in self.edges}
child_ids(es) == {es[i].to : i \in 1..Len(es)}

\* roots listed in an order that turns around from one export to the next
roots_alternating(ns, es) ==
    LET r == SelectSeq(ns, LAMBDA n : n.id \notin child_ids(es))
    IN IF last.op = "build_json" THEN [i \in 1..Len(r) |-> r[Len(r) + 1 - i]] ELSE r

\* every node taken for a root
roots_all(ns, es) == ns

\* roots = [n for n in self.nodes if n["id"] not in child_ids]
roots(ns, es) == SelectSeq(ns, LAMBDA n : n.id \notin child_ids(es))

RECURSIVE to_obj(_, _, _, _), add_children(_, _, _, _, _, _)
\* build_json.to_obj. depth counts the frames still free: a chain of calls
\* longer than the number of nodes repeats a node id, and then never ends
to_obj(ns, es, node, depth) ==
    IF depth = 0 THEN Diverges
    ELSE add_children(ns, es, node, 1,
                      Update(<<Entry("type", Str(node.type))>>, node.props), depth)

\* the loop "for edge in self.edges" of to_obj, from edge i on
add_children(ns, es, node, i, obj, depth) ==
    IF i > Len(es) THEN Built(obj)
    ELSE IF es[i].from = node.id /\ get_node(ns, es[i].to) # Null
    THEN LET child == get_node(ns, es[i].to)
             sub   == to_obj(ns, es, child, depth - 1)
         IN IF sub.diverges THEN Diverges
            ELSE add_children(ns, es, node, i + 1,
                              DictSet(obj, child.label, Obj(sub.obj)), depth)
    ELSE add_children(ns, es, node, i + 1, obj, depth)

RECURSIVE root_entries(_, _, _, _)
\* {n["label"]: to_obj(n) for n in roots}, from root i on
root_entries(ns, es, i, doc) ==
    LET rs == roots(ns, es)
    IN IF i > Len(rs) THEN Built(doc)
       ELSE LET sub == to_obj(ns, es, rs[i], Len(ns))
            IN IF sub.diverges THEN Diverges
               ELSE root_entries(ns, es, i + 1, DictSet(doc, rs[i].label, Obj(sub.obj)))

\* AppState.build_json
build_json(ns, es) == root_entries(ns, es, 1, <<>>)

(* ------------------------------ read calls ---------------------------- *)

\* GET /api/state
GetState ==
    /\ last' = Call("get_state", <<>>)
    /\ UNCHANGED threads
    /\ ret' = Returned([v |-> version, nodes |-> nodes, edges |-> edges,
                        sel |-> selected_id])
    /\ UNCHANGED <<store, invoked, skipped, issued>>

\* GET /api/json
GetJson ==
    /\ last' = Call("build_json", <<>>)
    /\ UNCHANGED threads
    /\ ret' = LET doc == build_json(nodes, edges)
              IN IF doc.diverges THEN Raised("RecursionError")
                 ELSE Returned(doc.obj)
    /\ UNCHANGED <<store, invoked, skipped, issued>>

\* AppState.export_config, called by GET /api/config and GET /api/settings
GetConfig ==
    /\ last' = Call("export_config", <<>>)
    /\ UNCHANGED threads
    /\ ret' = Returned([nodeTypes |-> node_types, rules |-> rules])
    /\ UNCHANGED <<store, invoked, skipped, issued>>

\* AppState.get_node
GetNode(node_id) ==
    /\ last' = Call("get_node", <<node_id>>)
    /\ UNCHANGED threads
    /\ ret' = Returned(get_node(nodes, node_id))
    /\ UNCHANGED <<store, invoked, skipped, issued>>

(* ---------------------------- specification --------------------------- *)

\* every handler, with any uuid draw and any input, on runs of a few calls
Mutate ==
    \/ \E k \in TypeKeyInputs, id \in Ids : AddNode(k, id)
    \/ \E id \in Ids, u \in UpdateInputs : UpdateNode(id, u[1], u[2])
    \/ \E id \in Ids, pos \in PosInputs : MoveNode(id, pos[1], pos[2])
    \/ \E id \in Ids : DeleteNode(id)
    \/ \E f \in Ids, t \in Ids, id \in Ids : AddEdge(f, t, id)
    \/ \E id \in Ids : DeleteEdge(id)
    \/ \E id \in Ids : Select(id)
    \/ Deselect
    \/ \E k \in TypeEditInputs : PutType(k, RACK_TYPE)
    \/ \E k \in TypeEditInputs : DelType(k)
    \/ \E r \in RulesInputs : PutRules(r)
    \/ \E d \in ImportInputs : ImportConfig(d)

Read ==
    \/ GetState
    \/ GetJson
    \/ GetConfig
    \/ \E id \in Ids : GetNode(id)

Next ==
    \/ Mutate /\ version' <= MaxWideVersion
    \/ Read

Spec == Init /\ [][Next]_vars

\* the uuid draw that repeats no earlier draw of its kind
FirstFree(used) == {i \in Ids \ used : \A j \in Ids \ used : i <= j}

\* the graph handlers on the default configuration, with uuid draws that
\* never repeat, on longer runs
NextGraph ==
    \/ \E k \in DOMAIN DEFAULT_NODE_TYPES, id \in FirstFree(issued.node) : AddNode(k, id)
    \/ \E id \in Ids : DeleteNode(id)
    \/ \E f \in Ids, t \in Ids, id \in FirstFree(issued.edge) : AddEdge(f, t, id)
    \/ \E id \in Ids : DeleteEdge(id)
    \/ GetJson

SpecGraph == Init /\ [][NextGraph]_vars

\* the graph handlers with uuid draws that never repeat, while the rule
\* table and the registry are edited
NextRules ==
    \/ \E k \in DOMAIN DEFAULT_NODE_TYPES, id \in FirstFree(issued.node) : AddNode(k, id)
    \/ \E id \in Ids : DeleteNode(id)
    \/ \E f \in Ids, t \in Ids, id \in FirstFree(issued.edge) : AddEdge(f, t, id)
    \/ \E r \in RulesInputs : PutRules(r)
    \/ \E k \in TypeEditInputs : DelType(k)
    \/ GetJson

SpecRules == Init /\ [][NextRules]_vars

\* every handler with uuid draws that never repeat
MutateFresh ==
    \/ \E k \in DOMAIN DEFAULT_NODE_TYPES, id \in FirstFree(issued.node) : AddNode(k, id)
    \/ \E id \in Ids, u \in UpdateInputs : UpdateNode(id, u[1], u[2])
    \/ \E id \in Ids, pos \in PosInputs : MoveNode(id, pos[1], pos[2])
    \/ \E id \in Ids : DeleteNode(id)
    \/ \E f \in Ids, t \in Ids, id \in FirstFree(issued.edge) : AddEdge(f, t, id)
    \/ \E id \in Ids : DeleteEdge(id)
    \/ \E id \in Ids : Select(id)
    \/ Deselect
    \/ \E k \in TypeEditInputs : PutType(k, RACK_TYPE)
    \/ \E k \in TypeEditInputs : DelType(k)
    \/ \E r \in RulesInputs : PutRules(r)
    \/ \E d \in ImportInputs : ImportConfig(d)

NextFresh ==
    \/ MutateFresh /\ version' <= MaxFreshVersion
    \/ Read

SpecFresh == Init /\ [][NextFresh]_vars

\* networks and vms are created, joined and relabelled, with uuid draws
\* that never repeat
NextSiblings ==
    \/ \E k \in {"network", "vm"}, id \in FirstFree(issued.node) : AddNode(k, id)
    \/ \E id \in Ids, u \in RelabelInputs : UpdateNode(id, u[1], u[2])
    \/ \E f \in Ids, t \in Ids, id \in FirstFree(issued.edge) : AddEdge(f, t, id)
    \/ GetJson

SpecSiblings == Init /\ [][NextSiblings]_vars

(* --------------------------- concurrent callers ----------------------- *)

\* The routes are plain `def` functions, which the framework runs in worker
\* threads, and AppState takes no lock: a handler can be suspended between
\* two statements while another handler runs. A thread's pc names the
\* statement it executes next.

At(t, pc) == threads[t].pc = pc

Goto(t, pc) == threads' = [threads EXCEPT ![t].pc = pc]

\* the calls begun so far: those that returned and those still running
Begun == invoked + Cardinality({t \in Threads : threads[t].pc # "idle"})

\* a thread takes a new call
Begin(t) == At(t, "idle") /\ Begun < MaxThreadCalls

\* add_node up to self.nodes.append(node); self._bump() is still to run
T_AddNode(t, type_key, id) ==
    /\ Begin(t)
    /\ type_key \in DOMAIN node_types
    /\ Len(nodes) < MaxNodes
    /\ nodes' = Append(nodes, new_node(nodes, node_types[type_key], type_key, id))
    /\ issued' = [issued EXCEPT !.node = @ \cup {id}]
    /\ threads' = [threads EXCEPT ![t] = [Idle EXCEPT !.pc = "bump_read", !.op = "add_node"]]
    /\ UNCHANGED <<node_types, rules, edges, selected_id, version,
                   invoked, skipped, last, ret>>

\* add_edge up to its three checks: it returns the error, or goes on to
\* create the edge
T_AddEdgeCheck(t, from_id, to_id) ==
    LET err == add_edge_error(nodes, edges, rules, node_types, from_id, to_id)
    IN /\ Begin(t)
       /\ IF err # ""
          THEN /\ last' = Call("add_edge", <<from_id, to_id>>)
               /\ ret' = Returned([edge |-> Null, err |-> err])
               /\ invoked' = invoked + 1
               /\ skipped' = skipped + 1
               /\ UNCHANGED threads
          ELSE /\ threads' = [threads EXCEPT ![t] =
                                 [Idle EXCEPT !.pc = "append_edge", !.op = "add_edge",
                                              !.a = from_id, !.b = to_id]]
               /\ UNCHANGED <<invoked, skipped, last, ret>>
       /\ UNCHANGED <<store, issued>>

\* self.edges.append(edge)
T_AddEdgeAppend(t, id) ==
    /\ At(t, "append_edge")
    /\ Len(edges) < MaxEdges
    /\ edges' = Append(edges, new_edge(id, threads[t].a, threads[t].b))
    /\ issued' = [issued EXCEPT !.edge = @ \cup {id}]
    /\ Goto(t, "bump_read")
    /\ UNCHANGED <<node_types, rules, nodes, selected_id, version,
                   invoked, skipped, last, ret>>

\* delete_node: self.nodes = [...]
T_DeleteNodeNodes(t, node_id) ==
    /\ Begin(t)
    /\ nodes' = nodes_without(nodes, node_id)
    /\ threads' = [threads EXCEPT ![t] =
                      [Idle EXCEPT !.pc = "delete_edges", !.op = "delete_node",
                                   !.a = node_id]]
    /\ UNCHANGED <<node_types, rules, edges, selected_id, version,
                   invoked, skipped, issued, last, ret>>

\* delete_node: self.edges = [...]
T_DeleteNodeEdges(t) ==
    /\ At(t, "delete_edges")
    /\ edges' = edges_without_node(edges, threads[t].a)
    /\ Goto(t, "delete_selection")
    /\ UNCHANGED <<node_types, rules, nodes, selected_id, version,
                   invoked, skipped, issued, last, ret>>

\* delete_node: if self.selected_id == node_id: self.selected_id = None
T_DeleteNodeSelection(t) ==
    /\ At(t, "delete_selection")
    /\ selected_id' = selection_after_delete(selected_id, threads[t].a)
    /\ Goto(t, "bump_read")
    /\ UNCHANGED <<node_types, rules, nodes, edges, version,
                   invoked, skipped, issued, last, ret>>

\* self._v += 1: the load of self._v
T_BumpRead(t) ==
    /\ At(t, "bump_read")
    /\ threads' = [threads EXCEPT ![t].pc = "bump_write", ![t].tmp = version]
    /\ UNCHANGED <<store, invoked, skipped, issued, last, ret>>

\* self._v += 1: the store of the sum; the handler returns
T_BumpWrite(t) ==
    /\ At(t, "bump_write")
    /\ version' = bump(threads[t].tmp)
    /\ invoked' = invoked + 1
    /\ last' = Call(threads[t].op, <<threads[t].a, threads[t].b>>)
    /\ ret' = Returned(Null)
    /\ threads' = [threads EXCEPT ![t] = Idle]
    /\ UNCHANGED <<node_types, rules, nodes, edges, selected_id, skipped, issued>>

\* get_state: the load of state._v for the "v" entry
T_GetStateVersion(t) ==
    /\ Begin(t)
    /\ threads' = [threads EXCEPT ![t] =
                      [Idle EXCEPT !.pc = "snapshot_rest", !.op = "get_state",
                                   !.tmp = version]]
    /\ UNCHANGED <<store, invoked, skipped, issued, last, ret>>

\* get_state: the loads of state.nodes, state.edges and state.selected_id
T_GetStateRest(t) ==
    /\ At(t, "snapshot_rest")
    /\ last' = Call("get_state", <<>>)
    /\ ret' = Returned([v |-> threads[t].tmp, nodes |-> nodes, edges |-> edges,
                        sel |-> selected_id])
    /\ invoked' = invoked + 1
    /\ skipped' = skipped + 1
    /\ threads' = [threads EXCEPT ![t] = Idle]
    /\ UNCHANGED <<store, issued>>

\* route handlers running in worker threads on the default configuration
NextThreads ==
    \/ \E t \in Threads, k \in {"network", "vm"}, id \in FirstFree(issued.node) :
            T_AddNode(t, k, id)
    \/ \E t \in Threads, f \in Ids, to \in Ids : T_AddEdgeCheck(t, f, to)
    \/ \E t \in Threads, id \in FirstFree(issued.edge) : T_AddEdgeAppend(t, id)
    \/ \E t \in Threads, id \in Ids : T_DeleteNodeNodes(t, id)
    \/ \E t \in Threads : T_DeleteNodeEdges(t)
    \/ \E t \in Threads : T_DeleteNodeSelection(t)
    \/ \E t \in Threads : T_BumpRead(t)
    \/ \E t \in Threads : T_BumpWrite(t)
    \/ \E t \in Threads : T_GetStateVersion(t)
    \/ \E t \in Threads : T_GetStateRest(t)

SpecThreads == Init /\ [][NextThreads]_vars

(* ------------------------------- claims ------------------------------- *)

MutatingOps ==
    {"add_node", "update_node", "move_node", "delete_node", "add_edge",
     "delete_edge", "select", "deselect", "put_type", "del_type", "put_rules",
     "import_config"}

ReadOps == {"get_state", "build_json", "export_config", "get_node"}

NodeIds(ns) == {ns[i].id : i \in 1..Len(ns)}

\* C1 as stated: version equals the number of mutating calls invoked, every
\* attempt counted, whether or not it changed anything.
C1_VersionCountsEveryAttempt == version = invoked

\* C1 amended: version equals the number of mutating calls invoked minus the
\* calls that failed (add_node with an unknown type key, add_edge returning an
\* error) or were silent no-ops on an unknown id (update_node, move_node);
\* deletes of unknown ids, selection changes and settings calls all count.
C1_VersionCountsBumpingCalls == version = invoked - skipped

\* a delete of an id no node ever had was counted, after a call that was not
C1_Witness ==
    /\ last.op = "delete_node"
    /\ issued.node = {}
    /\ skipped = 1
    /\ version = 1

\* the call recorded in last' succeeded: it did not fail and was no silent no-op
Succeeded ==
    CASE last'.op = "add_node" -> ~ret'.raised
      [] last'.op = "add_edge" -> ret'.value.err = ""
      [] last'.op \in {"update_node", "move_node"} -> last'.args[1] \in NodeIds(nodes)
      [] OTHER -> TRUE

\* C2: every successful mutating call raises version by exactly 1, and the
\* read-only calls (get_state, build_json, export_config, get_node) leave the
\* version and the whole store unchanged.
C2_BumpExactlyOnce ==
    [][ /\ (last'.op \in MutatingOps /\ Succeeded) => version' = version + 1
        /\ last'.op \in ReadOps => store' = store ]_vars

\* five bumping calls, two nodes and an edge among them: the last one, a
\* delete_node, took the edge away with its endpoint and left no selection
C2_Witness ==
    /\ last.op = "delete_node"
    /\ version = 5
    /\ skipped = 0
    /\ Cardinality(issued.node) = 2
    /\ Cardinality(issued.edge) = 1
    /\ Len(nodes) = 1
    /\ last.args[1] \notin NodeIds(nodes)
    /\ edges = <<>>
    /\ selected_id = None

\* the first node carrying an id, as the store's lookup resolves it
NodeOf(ns, id) == ns[CHOOSE i \in 1..Len(ns) :
                        ns[i].id = id /\ \A j \in 1..Len(ns) : ns[j].id = id => i <= j]

\* both ids are nodes, the rule table lists the target's kind under the
\* source's kind, and no edge joins the same ordered pair
MayConnect(f, t) ==
    /\ f \in NodeIds(nodes)
    /\ t \in NodeIds(nodes)
    /\ NodeOf(nodes, f).type \in DOMAIN rules
    /\ \E i \in 1..Len(rules[NodeOf(nodes, f).type]) :
            rules[NodeOf(nodes, f).type][i] = NodeOf(nodes, t).type
    /\ ~\E i \in 1..Len(edges) : edges[i].from = f /\ edges[i].to = t

\* C3: add_edge(fromId, toId) succeeds, appending exactly one edge from fromId
\* to toId, if and only if both ids are nodes of the graph, the target's type
\* key is listed in the rule table under the source's type key, and no edge
\* with the same ordered (from, to) pair exists.
C3_AddEdgeIff ==
    [][ last'.op = "add_edge" =>
          LET f == last'.args[1]
              t == last'.args[2]
          IN IF MayConnect(f, t)
             THEN /\ ret'.value.err = ""
                  /\ Len(edges') = Len(edges) + 1
                  /\ SubSeq(edges', 1, Len(edges)) = edges
                  /\ edges'[Len(edges')].from = f
                  /\ edges'[Len(edges')].to = t
                  /\ ret'.value.edge = edges'[Len(edges')]
             ELSE /\ ret'.value.err # ""
                  /\ ret'.value.edge = Null
                  /\ edges' = edges ]_vars

\* an edge was created, and a later attempt was turned down
C3_Witness ==
    /\ last.op = "add_edge"
    /\ ret.value.err # ""
    /\ Len(edges) = 1

\* C4: in every reachable state each edge's from and to are ids of nodes in
\* the graph, and right after delete_node(id) no edge has id as its from or
\* its to endpoint.
C4_EdgesReferenceNodes ==
    /\ \A i \in 1..Len(edges) :
          edges[i].from \in NodeIds(nodes) /\ edges[i].to \in NodeIds(nodes)
    /\ last.op = "delete_node" =>
          \A i \in 1..Len(edges) :
              edges[i].from # last.args[1] /\ edges[i].to # last.args[1]

\* four bumping calls: two nodes, the edge between them, and the delete_node
\* that took the edge away with its endpoint
C4_Witness ==
    /\ last.op = "delete_node"
    /\ version = 4
    /\ skipped = 0
    /\ Cardinality(issued.node) = 2
    /\ Cardinality(issued.edge) = 1
    /\ Len(nodes) = 1
    /\ edges = <<>>

\* C5: in every reachable state at most one edge exists for any ordered
\* (from, to) pair of node ids.
C5_OneEdgePerPair ==
    \A i, j \in 1..Len(edges) :
        (edges[i].from = edges[j].from /\ edges[i].to = edges[j].to) => i = j

\* an edge was deleted and created again, and then a second edge for the same
\* pair was turned down
C5_Witness ==
    /\ last.op = "add_edge"
    /\ ret.value.err = "Connection already exists"
    /\ Cardinality(issued.edge) = 2
    /\ Len(edges) = 1

IdSeq(s) == [i \in 1..Len(s) |-> s[i].id]

IsPrefix(a, b) == Len(a) <= Len(b) /\ SubSeq(b, 1, Len(a)) = a

\* C6: every id add_node assigns differs from every node id assigned earlier
\* in the run and every id add_edge assigns from every earlier edge id
\* (deleted nodes and edges included), so ids are unique among the live nodes
\* and among the live edges; and no call changes the id of an existing node
\* or edge.
C6_IdsNeverReused ==
    [][ /\ (last'.op = "add_node" /\ ~ret'.raised) =>
              ret'.value.id \notin issued.node
        /\ (last'.op = "add_edge" /\ ret'.value.err = "") =>
              ret'.value.edge.id \notin issued.edge
        /\ Cardinality(NodeIds(nodes')) = Len(nodes')
        /\ Cardinality({edges'[i].id : i \in 1..Len(edges')}) = Len(edges')
        /\ IF last'.op = "delete_node"
           THEN IdSeq(nodes') = SelectSeq(IdSeq(nodes), LAMBDA x : x # last'.args[1])
           ELSE IsPrefix(IdSeq(nodes), IdSeq(nodes'))
        /\ IF last'.op = "delete_edge"
           THEN IdSeq(edges') = SelectSeq(IdSeq(edges), LAMBDA x : x # last'.args[1])
           ELSE \/ last'.op = "delete_node"
                \/ IsPrefix(IdSeq(edges), IdSeq(edges')) ]_vars

Labels(ns) == [i \in 1..Len(ns) |-> ns[i].label]

HasIncoming(id) == \E i \in 1..Len(edges) : edges[i].to = id

\* the nodes without an incoming edge, in insertion order
Orphans == SelectSeq(nodes, LAMBDA n : ~HasIncoming(n.id))

RECURSIVE Dedup(_)
\* a sequence with every repeated element kept once, at its first position
Dedup(q) ==
    IF q = <<>> THEN <<>>
    ELSE LET init == Dedup(SubSeq(q, 1, Len(q) - 1))
             x    == q[Len(q)]
         IN IF \E i \in 1..Len(init) : init[i] = x THEN init ELSE Append(init, x)

\* C7 as stated: a node without incoming edge is a top-level key of the
\* document, a node with an incoming edge is not, and the top-level entries
\* are the roots in node insertion order.
C7_RootsAreTheTopLevel ==
    LET doc == build_json(nodes, edges)
    IN ~doc.diverges =>
          /\ \A i \in 1..Len(nodes) :
                HasIncoming(nodes[i].id) <=> ~HasKey(doc.obj, nodes[i].label)
          /\ Keys(doc.obj) = Labels(Orphans)

\* C7 amended: the label of every node without incoming edge is a top-level
\* key; every top-level key is the label of such a node, so a node with an
\* incoming edge is at top level only when a root carries the same label; the
\* top-level keys are the root labels in node insertion order, a label that
\* several roots share being kept once, at its first position, with the
\* object of the last root that carries it.
C7_RootLabelsAreTheTopLevel ==
    LET doc == build_json(nodes, edges)
    IN ~doc.diverges =>
          /\ \A i \in 1..Len(nodes) :
                ~HasIncoming(nodes[i].id) => HasKey(doc.obj, nodes[i].label)
          /\ \A k \in 1..Len(doc.obj) :
                \E i \in 1..Len(Orphans) : Orphans[i].label = doc.obj[k].k
          /\ Keys(doc.obj) = Dedup(Labels(Orphans))
          /\ \A i \in 1..Len(Orphans) :
                (\A j \in (i + 1)..Len(Orphans) : Orphans[j].label # Orphans[i].label)
                    => DictGet(doc.obj, Orphans[i].label)
                         = Obj(to_obj(nodes, edges, Orphans[i], Len(nodes)).obj)

\* the export of two nodes joined by an edge: the child is no top-level key
C7_Witness ==
    /\ last.op = "build_json"
    /\ ~ret.raised
    /\ Len(nodes) = 2
    /\ Len(edges) = 1
    /\ Len(Orphans) = 1
    /\ Keys(ret.value) = <<Orphans[1].label>>

RECURSIVE ChildEntries(_, _)
\* for each edge from node n, from edge i on and in creation order, the
\* child's object under the child's label
ChildEntries(n, i) ==
    IF i > Len(edges) THEN <<>>
    ELSE IF edges[i].from = n.id
    THEN <<Entry(NodeOf(nodes, edges[i].to).label,
                 Obj(to_obj(nodes, edges, NodeOf(nodes, edges[i].to), Len(nodes)).obj))>>
             \o ChildEntries(n, i + 1)
    ELSE ChildEntries(n, i + 1)

\* C8: the exported object of every node is a `type` entry equal to the
\* node's type key, followed by the node's stored properties, followed by one
\* entry per outgoing edge, in creation order, holding the child's object
\* under the child's label (so that network->vm->storage exports as
\* {"Network 1": {type: network, props, "VM 1": {type: vm, props,
\* "Storage 1": {type: storage, props}}}}).
C8_TypePropsChildren ==
    \A i \in 1..Len(nodes) :
        LET built == to_obj(nodes, edges, nodes[i], Len(nodes))
        IN ~built.diverges =>
              /\ DictGet(built.obj, "type") = Str(nodes[i].type)
              /\ built.obj = <<Entry("type", Str(nodes[i].type))>>
                                 \o nodes[i].props \o ChildEntries(nodes[i], 1)

Range(q) == {q[i] : i \in 1..Len(q)}

\* the ids the edges of es lead to from id
ChildrenOf(es, id) == {es[i].to : i \in {j \in 1..Len(es) : es[j].from = id}}

\* the graph network -> vm -> storage of the default configuration, vm
\* being the node with this id
IsChain(id) ==
    /\ Len(nodes) = 3
    /\ Len(edges) = 2
    /\ \E n, s \in NodeIds(nodes) :
          /\ NodeOf(nodes, n).label = "Network 1"
          /\ NodeOf(nodes, id).label = "VM 1"
          /\ NodeOf(nodes, s).label = "Storage 1"
          /\ {<<edges[1].from, edges[1].to>>, <<edges[2].from, edges[2].to>>}
                = {<<n, id>>, <<id, s>>}

\* C9: after delete_node(id) of a node with a parent and children, the node
\* and its incoming and outgoing edges are gone, every other node remains,
\* and each former child without another incoming edge is a root whose label
\* is a top-level key of the document; deleting VM 1 from network -> vm ->
\* storage leaves exactly Network 1 and Storage 1 at top level.
C9_DeleteMiddleNode ==
    [][ (/\ last'.op = "delete_node"
         /\ HasIncoming(last'.args[1])
         /\ ChildrenOf(edges, last'.args[1]) # {}) =>
          LET id  == last'.args[1]
              doc == build_json(nodes', edges')
          IN /\ id \notin NodeIds(nodes')
             /\ \A i \in 1..Len(edges') : edges'[i].from # id /\ edges'[i].to # id
             /\ Len(edges') < Len(edges)
             /\ Range(nodes') = {n \in Range(nodes) : n.id # id}
             /\ ~doc.diverges
             /\ \A c \in ChildrenOf(edges, id) \ {id} :
                   (~\E i \in 1..Len(edges') : edges'[i].to = c) =>
                       /\ \E i \in 1..Len(roots(nodes', edges')) :
                              roots(nodes', edges')[i].id = c
                       /\ HasKey(doc.obj, NodeOf(nodes', c).label)
             /\ IsChain(id) =>
                   Range(Keys(doc.obj)) = {"Network 1", "Storage 1"} ]_vars

\* six bumping calls: three nodes, two edges, and the delete_node that left
\* a network and a storage node and no edge, so it removed the vm between them
C9_Witness ==
    /\ last.op = "delete_node"
    /\ version = 6
    /\ skipped = 0
    /\ Cardinality(issued.node) = 3
    /\ Cardinality(issued.edge) = 2
    /\ edges = <<>>
    /\ {nodes[i].label : i \in 1..Len(nodes)} = {"Network 1", "Storage 1"}
    /\ Len(nodes) = 2

\* the rule table lists the kind of the node with id t under the kind of
\* the node with id f
Nestable(f, t) ==
    /\ NodeOf(nodes, f).type \in DOMAIN rules
    /\ \E i \in 1..Len(rules[NodeOf(nodes, f).type]) :
            rules[NodeOf(nodes, f).type][i] = NodeOf(nodes, t).type

\* the display label of a kind, the raw key when the kind is not registered
KindLabel(key) == IF key \in DOMAIN node_types THEN node_types[key].label ELSE key

\* C10: add_node with a type key absent from the registry fails as an error;
\* add_edge answers NodeNotFound when an endpoint is missing, otherwise
\* InvalidNesting when the rule table forbids the pair, otherwise
\* DuplicateEdge when the pair is already joined, each as an error value with
\* no edge; in all four cases nodes, edges, selection and version stay as
\* they were.
C10_FailedAddChangesNothing ==
    [][ /\ last'.op = "add_node" =>
              /\ ret'.raised <=> last'.args[1] \notin DOMAIN node_types
              /\ ret'.raised =>
                    <<nodes', edges', selected_id', version'>>
                        = <<nodes, edges, selected_id, version>>
        /\ last'.op = "add_edge" =>
              LET f == last'.args[1]
                  t == last'.args[2]
                  missing   == f \notin NodeIds(nodes) \/ t \notin NodeIds(nodes)
                  joined == \E i \in 1..Len(edges) :
                                edges[i].from = f /\ edges[i].to = t
              IN /\ ~ret'.raised
                 /\ missing => ret'.value.err = "Node not found"
                 /\ (~missing /\ ~Nestable(f, t)) =>
                        ret'.value.err = KindLabel(NodeOf(nodes, t).type)
                            \o " cannot be nested inside "
                            \o KindLabel(NodeOf(nodes, f).type)
                 /\ (~missing /\ Nestable(f, t) /\ joined) =>
                        ret'.value.err = "Connection already exists"
                 /\ ret'.value.err # "" =>
                        /\ ret'.value.edge = Null
                        /\ <<nodes', edges', selected_id', version'>>
                               = <<nodes, edges, selected_id, version>> ]_vars

\* add_edge answered InvalidNesting for a pair that an edge already joins:
\* the rule check came before the duplicate check
C10_Witness ==
    /\ last.op = "add_edge"
    /\ \E i \in 1..Len(edges) :
          /\ edges[i].from = last.args[1]
          /\ edges[i].to = last.args[2]
          /\ ret.value.err = KindLabel(NodeOf(nodes, edges[i].to).type)
                                \o " cannot be nested inside "
                                \o KindLabel(NodeOf(nodes, edges[i].from).type)

IndexOf(ns, id) == CHOOSE i \in 1..Len(ns) :
                        ns[i].id = id /\ \A j \in 1..Len(ns) : ns[j].id = id => i <= j

\* new is old with the entries of patch merged in, overwrite by key
Merged(old, patch, new) ==
    /\ Range(Keys(new)) = Range(Keys(old)) \cup Range(Keys(patch))
    /\ Len(new) = Cardinality(Range(Keys(new)))
    /\ \A k \in Range(Keys(patch)) : DictGet(new, k) = DictGet(patch, k)
    /\ \A k \in Range(Keys(old)) \ Range(Keys(patch)) : DictGet(new, k) = DictGet(old, k)

\* C12: update_node and move_node with an id that is not in the graph change
\* no node, edge or selection, signal no error and do not bump version; with
\* a known id they change only that node (its label and merged properties,
\* or its position) and leave every other node and all edges unchanged.
C12_UpdateMoveFrame ==
    [][ last'.op \in {"update_node", "move_node"} =>
          LET id == last'.args[1]
          IN IF id \notin NodeIds(nodes)
             THEN /\ <<nodes', edges', selected_id', version'>>
                        = <<nodes, edges, selected_id, version>>
                  /\ ~ret'.raised
             ELSE LET i   == IndexOf(nodes, id)
                      old == nodes[i]
                      new == nodes'[i]
                  IN /\ Len(nodes') = Len(nodes)
                     /\ \A j \in 1..Len(nodes) : j # i => nodes'[j] = nodes[j]
                     /\ edges' = edges
                     /\ ~ret'.raised
                     /\ new.id = old.id /\ new.type = old.type
                     /\ IF last'.op = "update_node"
                        THEN /\ new.x = old.x /\ new.y = old.y
                             /\ new.label = IF last'.args[2] # <<>>
                                            THEN last'.args[2][1] ELSE old.label
                             /\ IF last'.args[3] # <<>>
                                THEN Merged(old.props, last'.args[3][1], new.props)
                                ELSE new.props = old.props
                        ELSE /\ new.x = last'.args[2] /\ new.y = last'.args[3]
                             /\ new.label = old.label
                             /\ new.props = old.props ]_vars

\* update_node merged a patch into the properties of the first of two nodes:
\* the node holds its own properties and the patched ones
C12_Witness ==
    /\ last.op = "update_node"
    /\ last.args[3] # <<>>
    /\ Len(nodes) = 2
    /\ last.args[1] = nodes[1].id
    /\ HasKey(nodes[1].props, "cidr")
    /\ HasKey(nodes[1].props, "note")
    /\ ~HasKey(nodes[2].props, "note")

\* C13: delete_node(id) sets the selection to null exactly when the selection
\* equals id before the call and leaves it unchanged otherwise; it bumps
\* version also when id is not in the graph, and then nodes, edges and
\* selection are unchanged.
C13_DeleteNodeSelection ==
    [][ last'.op = "delete_node" =>
          LET id == last'.args[1]
          IN /\ selected_id' = IF selected_id = id THEN None ELSE selected_id
             /\ version' = version + 1
             /\ id \notin NodeIds(nodes) =>
                   <<nodes', edges', selected_id'>> = <<nodes, edges, selected_id>> ]_vars

\* C14: in every reachable state the selection is null or the id of a node
\* in the graph.
C14_SelectionIsANode == selected_id = None \/ selected_id \in NodeIds(nodes)

\* C15: after del_type(key) the key is no parent entry of the rule table and
\* occurs in no parent's list of allowed children; the nodes of that type
\* and all edges stay in the graph unchanged.
C15_DelTypePurgesRules ==
    [][ last'.op = "del_type" =>
          LET key == last'.args[1]
          IN /\ key \notin DOMAIN node_types'
             /\ key \notin DOMAIN rules'
             /\ \A k \in DOMAIN rules' :
                   \A i \in 1..Len(rules'[k]) : rules'[k][i] # key
             /\ nodes' = nodes
             /\ edges' = edges ]_vars

\* the vm kind was deleted while a vm node sits under a network node: the
\* rule table lost the vm entry and the vm child of network, the graph kept
\* the node and the edge
C15_Witness ==
    /\ last.op = "del_type"
    /\ last.args = <<"vm">>
    /\ rules = [network |-> <<>>]
    /\ Len(edges) = 1
    /\ NodeOf(nodes, edges[1].to).type = "vm"
    /\ NodeOf(nodes, edges[1].from).type = "network"

RECURSIVE Closure(_)
\* the ids in S and every id an edge path leads to from them
Closure(S) ==
    LET T == S \cup {edges[i].to : i \in {j \in 1..Len(edges) : edges[j].from \in S}}
    IN IF T = S THEN S ELSE Closure(T)

\* the ids reached from id by a path of at least one edge
Below(id) == Closure(ChildrenOf(edges, id))

\* the edges contain a cycle
HasCycle == \E i \in 1..Len(edges) : edges[i].from \in Below(edges[i].from)

\* a node without incoming edge leads, by zero or more edges, to a node that
\* lies on a cycle
CycleUnderRoot ==
    \E i \in 1..Len(Orphans) : \E c \in Closure({Orphans[i].id}) : c \in Below(c)

\* C16 as stated: in any reachable state whose edges contain a cycle, the
\* recursion of build_json does not terminate.
C16_CycleNeverTerminates ==
    HasCycle => build_json(nodes, edges).diverges

\* the ids that a path of zero or more edges reaches from a node without
\* incoming edge
UnderRoots == Closure({Orphans[i].id : i \in 1..Len(Orphans)})

\* C16 amended: build_json detects no cycle, and its recursion fails to
\* terminate exactly in the states where a node without incoming edge leads
\* to a cycle; a cycle that no such node leads to is never entered, and
\* build_json returns the document of the graph without the nodes and edges
\* that no root leads to.
C16_RootedCycleNeverTerminates ==
    /\ build_json(nodes, edges).diverges <=> CycleUnderRoot
    /\ last.op = "build_json" => (ret.raised <=> CycleUnderRoot)
    /\ (last.op = "build_json" /\ ~CycleUnderRoot) =>
          ret.value = build_json(SelectSeq(nodes, LAMBDA n : n.id \in UnderRoots),
                                 SelectSeq(edges, LAMBDA e : e.from \in UnderRoots)).obj

\* the export was asked for a network whose vm child contains itself
C16_Witness ==
    /\ last.op = "build_json"
    /\ ret.raised
    /\ Len(nodes) = 2
    /\ Len(edges) = 2
    /\ \E i, j \in 1..2 :
          /\ edges[i].from # edges[i].to
          /\ edges[j].from = edges[j].to
          /\ edges[i].to = edges[j].from

RECURSIVE KindClosure(_)
\* the kinds in S and every kind the rule table lets nest, directly or
\* transitively, inside one of them
KindClosure(S) ==
    LET T == S \cup UNION {Range(rules[k]) : k \in S \cap DOMAIN rules}
    IN IF T = S THEN S ELSE KindClosure(T)

\* C17: while the rule table is the built-in default, no kind nests, directly
\* or transitively, inside itself, no sequence of add_node, add_edge,
\* delete_node and delete_edge produces a cycle of edges, and build_json
\* terminates in every reachable state.
C17_DefaultRulesNoCycle ==
    rules = DEFAULT_RULES =>
        /\ \A k \in DOMAIN rules : k \notin KindClosure(Range(rules[k]))
        /\ ~HasCycle
        /\ ~build_json(nodes, edges).diverges
        /\ last.op = "build_json" => ~ret.raised

\* the export of network -> vm -> storage returned, three levels deep
C17_Witness ==
    /\ last.op = "build_json"
    /\ ~ret.raised
    /\ \E id \in Ids : IsChain(id)
    /\ Len(ret.value) = 1
    /\ HasKey(ret.value[1].v.o, "VM 1")
    /\ HasKey(DictGet(ret.value[1].v.o, "VM 1").o, "Storage 1")

\* no handler is running
Quiescent == \A t \in Threads : threads[t].pc = "idle"

\* C18: with concurrent callers the calls take effect one after the other:
\* once every call has returned, each edge joins two nodes of the graph (I1),
\* no ordered pair has two edges (I2) and version counts every bumping call
\* that returned; and the version a snapshot reports is the version of the
\* nodes and edges it reports.
C18_ConcurrentCallsSerialized ==
    [][ /\ Quiescent' =>
              /\ \A i \in 1..Len(edges') :
                    /\ edges'[i].from \in NodeIds(nodes')
                    /\ edges'[i].to \in NodeIds(nodes')
              /\ \A i, j \in 1..Len(edges') :
                    (edges'[i].from = edges'[j].from /\ edges'[i].to = edges'[j].to)
                        => i = j
              /\ version' = invoked' - skipped'
        /\ \A t \in Threads :
              (threads[t].pc = "snapshot_rest" /\ threads'[t].pc = "idle") =>
                  ret'.value.v = version ]_vars

\* the positions of the edges from node p to children labelled l
EdgesTo(p, l) ==
    {i \in 1..Len(edges) : edges[i].from = p.id /\ NodeOf(nodes, edges[i].to).label = l}

\* C19: when two children of one parent share a label, the parent's exported
\* object holds a single entry under that label, the object of the child
\* whose edge was created later, so the document holds fewer nodes than the
\* roots reach; the graph itself holds both nodes and both edges.
C19_SiblingLabelCollision ==
    \A n \in 1..Len(nodes), l \in Range(Labels(nodes)) :
        LET p     == nodes[n]
            built == to_obj(nodes, edges, p, Len(nodes))
            es    == EdgesTo(p, l)
            later == CHOOSE i \in es : \A j \in es : j <= i
        IN (Cardinality(es) >= 2 /\ ~built.diverges) =>
              /\ Cardinality({k \in 1..Len(built.obj) : built.obj[k].k = l}) = 1
              /\ DictGet(built.obj, l)
                    = Obj(to_obj(nodes, edges, NodeOf(nodes, edges[later].to),
                                 Len(nodes)).obj)
              /\ Cardinality({edges[i].to : i \in es}) = Cardinality(es)
              /\ {edges[i].to : i \in es} \subseteq NodeIds(nodes)

\* the export of a network with two vm children that are both labelled VM 1:
\* three nodes and two edges in the graph, one child entry in the document,
\* and it is the object of the child joined later, not of the other one
C19_Witness ==
    /\ last.op = "build_json"
    /\ ~ret.raised
    /\ Len(nodes) = 3
    /\ Len(edges) = 2
    /\ edges[1].from = edges[2].from
    /\ NodeOf(nodes, edges[1].to).label = "VM 1"
    /\ NodeOf(nodes, edges[2].to).label = "VM 1"
    /\ NodeOf(nodes, edges[1].to).props # NodeOf(nodes, edges[2].to).props
    /\ Keys(ret.value) = <<"Network 1">>
    /\ Cardinality({k \in 1..Len(ret.value[1].v.o) : ret.value[1].v.o[k].k = "VM 1"}) = 1
    /\ DictGet(ret.value[1].v.o, "VM 1").o
          = <<Entry("type", Str("vm"))>> \o NodeOf(nodes, edges[2].to).props

\* C20: add_node labels the new node "{type label} n", and the label differs
\* from the label of every node of the same type still in the graph.
C20_LabelNumberNotReused ==
    [][ (last'.op = "add_node" /\ ~ret'.raised) =>
          LET type_key == last'.args[1]
          IN /\ \E n \in 1..(Len(nodes) + 1) :
                    ret'.value.label
                        = node_types[type_key].label \o " " \o ToString(n)
             /\ \A i \in 1..Len(nodes) :
                    nodes[i].type = type_key => nodes[i].label # ret'.value.label ]_vars

====
